---- MODULE Spec2Model ----
(***************************************************************************)
(* A model of domafic (src/src/lib.rs): statically typed DOM nodes, node   *)
(* collections, the attribute overlay, the attribute iterator and the two  *)
(* processors of the crate (the HTML writer and the tests' child counter). *)
(*                                                                         *)
(* Values.  A Rust value is a record with a "kind" field.  A node is one   *)
(* of Text, Tag, WithAttributes, Ref, Bogus; every node is also a          *)
(* collection (the blanket impl of DOMNodes for T: DOMNode); the other     *)
(* collections are Unit, Option, Slice, Array, Vec, Tuple and, with the    *)
(* feature use_either_n, Either1 .. Either8.  A string written to a sink   *)
(* is the sequence of the pieces the format strings produce.               *)
(*                                                                         *)
(* Arithmetic.  A usize has 64 bits.  The integers of the model checker    *)
(* have 32, so a usize is the sequence of its four 16-bit digits, the      *)
(* least significant first, and is added, subtracted and compared digit by *)
(* digit.  An overflow of usize panics in a build with overflow checks and *)
(* wraps in a build without: where one can happen the model allows both    *)
(* outcomes.                                                               *)
(***************************************************************************)
EXTENDS Integers, Sequences, FiniteSets, TLC

----------------------------------------------------------------------------
(* Bounds of the model *)

\* total number of attributes carried by a node and the overlays around it
MaxAttrs == 3
\* number of overlays nested around a node
MaxOverlay == 2
\* length of a slice, array or vector
MaxLen == 2
\* the largest of the small indices get_attribute is called with
MaxIndex == 5

----------------------------------------------------------------------------
(* Option, Result and the outcome of a panic *)

None == [tag |-> "None"]
Some(x) == [tag |-> "Some", val |-> x]
Ok == [tag |-> "Ok"]
Err(e) == [tag |-> "Err", e |-> e]
\* an arithmetic overflow detected by the build (debug assertions)
Panic == [tag |-> "Panic"]

----------------------------------------------------------------------------
(* usize *)

\* usize::BITS
UsizeBits == 64
\* a digit of a usize holds 16 bits
Base == 2 ^ 16
Digits == UsizeBits \div 16

\* the usize of a natural number below Base * Base \div 2
usize(n) == [i \in 1 .. Digits |-> CASE i = 1 -> n % Base
                                      [] i = 2 -> n \div Base
                                      [] OTHER -> 0]

\* the natural number of a usize below Base * Base \div 2
nat(u) == u[1] + Base * u[2]

\* usize::MAX
UsizeMax == [i \in 1 .. Digits |-> Base - 1]

\* a + b + carry over the digits from the least significant: the digits of
\* the sum and the carry out of the most significant
RECURSIVE add_digits(_, _, _)
add_digits(a, b, carry) ==
    IF a = <<>> THEN [digits |-> <<>>, carry |-> carry]
    ELSE LET sum == Head(a) + Head(b) + carry
             rest == add_digits(Tail(a), Tail(b), sum \div Base)
         IN  [digits |-> <<sum % Base>> \o rest.digits, carry |-> rest.carry]

\* a - b - borrow over the digits from the least significant: the digits of
\* the difference and the borrow out of the most significant
RECURSIVE sub_digits(_, _, _)
sub_digits(a, b, borrow) ==
    IF a = <<>> THEN [digits |-> <<>>, borrow |-> borrow]
    ELSE LET diff == Head(a) - Head(b) - borrow
             rest == sub_digits(Tail(a), Tail(b), IF diff < 0 THEN 1 ELSE 0)
         IN  [digits |-> <<diff % Base>> \o rest.digits,
              borrow |-> rest.borrow]

\* usize addition: the sum, or None when it is above usize::MAX
usize_add(a, b) ==
    LET r == add_digits(a, b, 0)
    IN  IF r.carry = 0 THEN Some(r.digits) ELSE None

\* usize subtraction: the difference, or None when it is negative
usize_sub(a, b) ==
    LET r == sub_digits(a, b, 0)
    IN  IF r.borrow = 0 THEN Some(r.digits) ELSE None

\* a < b
usize_lt(a, b) == sub_digits(a, b, 0).borrow = 1

\* what `x += 1` leaves in x when it overflows: nothing in a build with
\* overflow checks, which panics, and 0 in a build without
OverflowOutcomes == {Panic, Some(usize(0))}

\* the indices get_attribute is called with: the small ones, the first of
\* two digits and the largest
Indices ==
    {usize(i) : i \in 0 .. MaxIndex}
        \cup {usize(Base), usize_sub(UsizeMax, usize(1)).val, UsizeMax}

----------------------------------------------------------------------------
(* Constructors of values *)

Unit == [kind |-> "Unit"]
Text(s) == [kind |-> "Text", text |-> s]
Ref(n) == [kind |-> "Ref", node |-> n]
OptNone == [kind |-> "Option", inner |-> None]
OptSome(c) == [kind |-> "Option", inner |-> Some(c)]
Slice(es) == [kind |-> "Slice", elems |-> es]
Array(es) == [kind |-> "Array", elems |-> es]
Vec(es) == [kind |-> "Vec", elems |-> es]
Tuple(es) == [kind |-> "Tuple", elems |-> es]

\* the enums either_impls implements DOMNodes for: Either8 .. Either1
MaxEither == 8

\* variant number `variant` (One is 1) of the enum with n variants
Either(n, variant, c) ==
    [kind |-> "Either", n |-> n, variant |-> variant, inner |-> c]

\* tags::Tag, as built by the functions impl_tags! generates
Tag(tagname, contents, attributes) ==
    [kind |-> "Tag", tagname |-> tagname, contents |-> contents,
     attributes |-> attributes]

\* DOMNode::with_attributes
with_attributes(node, attrs) ==
    [kind |-> "WithAttributes", node |-> node, attributes |-> attrs]

\* the unit structs of the tests
BogusOne == [kind |-> "Bogus", tag |-> "bogus_tag_one"]
BogusTwo == [kind |-> "Bogus", tag |-> "bogus_tag_two"]

NodeKinds == {"Text", "Tag", "WithAttributes", "Ref", "Bogus"}
SeqKinds == {"Slice", "Array", "Vec"}
IsNode(c) == c.kind \in NodeKinds

----------------------------------------------------------------------------
(* Attribute lookup *)

\* <[T]>::get
slice_get(s, index) ==
    IF usize_lt(index, usize(Len(s))) THEN Some(s[nat(index) + 1]) ELSE None

\* a bug: the index taken as 1-based
Tag_get_attribute_one_based(node, index) ==
    IF index = usize(0) THEN None
    ELSE slice_get(node.attributes, usize_sub(index, usize(1)).val)

\* impl DOMNode for Tag: get_attribute
Tag_get_attribute(node, index) == slice_get(node.attributes, index)

RECURSIVE get_attribute(_, _)

\* a bug: the index handed to the wrapped node as it is
WithAttributes_get_attribute_nosub(node, index) ==
    LET own == slice_get(node.attributes, index)
    IN  IF own # None THEN own ELSE get_attribute(node.node, index)

\* a bug: `or` for `or_else`, the subtraction evaluated whatever get returns
WithAttributes_get_attribute_eager(node, index) ==
    LET own == slice_get(node.attributes, index)
        j == usize_sub(index, usize(Len(node.attributes)))
    IN  IF j = None THEN Panic
        ELSE IF own # None THEN own ELSE get_attribute(node.node, j.val)

\* impl DOMNode for WithAttributes: get_attribute.  The closure of or_else
\* runs only when get returned None.
WithAttributes_get_attribute(node, index) ==
    LET own == slice_get(node.attributes, index)
    IN  IF own # None THEN own
        ELSE LET j == usize_sub(index, usize(Len(node.attributes)))
             IN  IF j = None THEN Panic ELSE get_attribute(node.node, j.val)

\* DOMNode::get_attribute, by the impl of the node's type.  Text nodes,
\* references and the tests' nodes keep the trait's default.
get_attribute(node, index) ==
    CASE node.kind = "Tag" -> Tag_get_attribute(node, index)
      [] node.kind = "WithAttributes" -> WithAttributes_get_attribute(node, index)
      [] OTHER -> None

\* a bug: the iterator starts after the first attribute
attributes_from_one(node) == [node |-> node, index |-> usize(1)]

\* DOMNode::attributes
attributes(node) == [node |-> node, index |-> usize(0)]

\* AttributeIter::next: the outcomes of a call, each the result and the
\* iterator after the call.  `self.index += 1` overflows at usize::MAX, after
\* the result was computed: the call panics or the index wraps to 0.
AttributeIter_next(it) ==
    LET res == get_attribute(it.node, it.index)
        next == usize_add(it.index, usize(1))
    IN  IF res = Panic THEN {[res |-> Panic, it |-> it]}
        ELSE IF next # None
        THEN {[res |-> res, it |-> [it EXCEPT !.index = next.val]]}
        ELSE {IF o = Panic THEN [res |-> Panic, it |-> it]
                           ELSE [res |-> res, it |-> [it EXCEPT !.index = o.val]] :
                 o \in OverflowOutcomes}

RECURSIVE value(_)
\* DOMNode::value
value(node) ==
    CASE node.kind = "Text" -> [tag |-> "Text", text |-> node.text]
      [] node.kind = "Tag" -> [tag |-> "Element", name |-> node.tagname]
      [] node.kind = "Bogus" -> [tag |-> "Element", name |-> node.tag]
      [] OTHER -> value(node.node)

----------------------------------------------------------------------------
(* The nodes whose attributes are looked up *)

KV1 == <<"attr1", "val1">>
KV2 == <<"attr2", "val2">>
KV3 == <<"attr3", "val3">>
KeyValues == {KV1, KV2}

SeqsUpTo(S, n) == UNION {[1 .. k -> S] : k \in 0 .. n}
AttrLists == SeqsUpTo(KeyValues, MaxAttrs)

RECURSIVE TotalAttrs(_)
TotalAttrs(n) ==
    CASE n.kind = "Tag" -> Len(n.attributes)
      [] n.kind = "WithAttributes" -> Len(n.attributes) + TotalAttrs(n.node)
      [] n.kind = "Ref" -> TotalAttrs(n.node)
      [] OTHER -> 0

BaseAttrNodes ==
    {Text("a"), BogusOne}
        \cup {Tag("div", Unit, a) : a \in AttrLists}
        \cup {Ref(Tag("div", Unit, a)) : a \in AttrLists}

RECURSIVE Overlays(_)
Overlays(d) ==
    IF d = 0 THEN BaseAttrNodes
    ELSE LET inner == Overlays(d - 1)
         IN  inner \cup
             {with_attributes(p[1], p[2]) :
                 p \in {q \in inner \X AttrLists :
                           TotalAttrs(q[1]) + Len(q[2]) <= MaxAttrs}}

\* tests::builds_attribute_list
div1 == with_attributes(with_attributes(Tag("div", Unit, <<>>), <<KV2, KV3>>), <<KV1>>)
div2 == with_attributes(Tag("div", Tag("div", Unit, <<>>), <<KV2, KV3>>), <<KV1>>)

\* references to overlays, and overlays around them
RefAttrNodes ==
    {Ref(div1), Ref(Ref(div2)), with_attributes(Ref(div1), <<KV1>>),
     with_attributes(Ref(with_attributes(Text("a"), <<KV2>>)), <<KV1, KV1>>)}

AttrNodes == Overlays(MaxOverlay) \cup {div1, div2} \cup RefAttrNodes

----------------------------------------------------------------------------
(* The tuple impls tuple_impls! generates *)

\* the invocation of the macro: (9 => J), ..., (0 => A)
MacroInput ==
    << [idx |-> 9, typ |-> "J"], [idx |-> 8, typ |-> "I"],
       [idx |-> 7, typ |-> "H"], [idx |-> 6, typ |-> "G"],
       [idx |-> 5, typ |-> "F"], [idx |-> 4, typ |-> "E"],
       [idx |-> 3, typ |-> "D"], [idx |-> 2, typ |-> "C"],
       [idx |-> 1, typ |-> "B"], [idx |-> 0, typ |-> "A"] >>

MaxTupleArity == Len(MacroInput)

\* a bug: the accumulated list is not reversed
tuple_impls_append(acc, item) == acc \o <<item>>

\* the second rule of the macro: the next item goes in front of the
\* accumulated list
tuple_impls_accumulate(acc, item) == <<item>> \o acc

RECURSIVE tuple_impls_reverse(_, _)
\* the second rule, repeated until the list to reverse is empty; the third
\* rule then expands the accumulated list
tuple_impls_reverse(acc, rest) ==
    IF rest = <<>> THEN acc
    ELSE tuple_impls_reverse(tuple_impls_accumulate(acc, Head(rest)), Tail(rest))

RECURSIVE tuple_impls(_)
\* the first rule: one impl for the whole list, then the macro on its tail
tuple_impls(list) ==
    IF list = <<>> THEN {}
    ELSE {tuple_impls_reverse(<<Head(list)>>, Tail(list))}
             \cup tuple_impls(Tail(list))

TupleImpls == tuple_impls(MacroInput)

\* the fields in the order the generated process_all of the tuples of arity
\* n folds them: one statement self.$idx.process_all(acc)? per item
tuple_order(n) ==
    LET impl == CHOOSE x \in TupleImpls : Len(x) = n
    IN  [i \in 1 .. n |-> impl[i].idx]

----------------------------------------------------------------------------
(* The HTML writer's format strings *)

\* write!(w, "<{}", tagname)
fmt_open(tagname) == <<"<", tagname>>
\* a bug: no space before the key
fmt_attr_nospace(attr) == <<attr[1], "=\"", attr[2], "\"">>
\* write!(w, " {}=\"{}\"", attr.0, attr.1)
fmt_attr(attr) == <<" ", attr[1], "=\"", attr[2], "\"">>
\* write!(w, ">")
fmt_gt == <<">">>
\* write!(w, "</{}>", tagname)
fmt_close(tagname) == <<"</", tagname, ">">>
\* write!(w, "{}", text)
fmt_text(text) == <<text>>

----------------------------------------------------------------------------
(* The values that are folded *)

MemberNames == <<"m0", "m1", "m2", "m3", "m4", "m5", "m6", "m7", "m8", "m9">>
Member(i) == Text(MemberNames[i])

\* a tuple of arity n of distinct text nodes, position p holding x
TupleWith(n, p, x) == Tuple([i \in 1 .. n |-> IF i = p THEN x ELSE Member(i)])

NestedMembers ==
    {Member(1), Unit, OptNone, Array(<<Text("a"), Text("b")>>),
     Tuple(<<BogusOne, Text("a")>>)}

TupleRoots ==
    {TupleWith(n, p, x) : n \in 1 .. MaxTupleArity, p \in 1 .. MaxTupleArity,
                          x \in NestedMembers}

\* the values of one element type each
ElemTypes ==
    { {Text("a"), Text("b")}, {BogusOne}, {Unit},
      {OptNone, OptSome(Text("a"))}, {Ref(BogusTwo)},
      {Tuple(<<Text("a"), Text("b")>>)} }

SeqRoots ==
    {[kind |-> k, elems |-> es] :
        k \in SeqKinds, es \in UNION {SeqsUpTo(T, MaxLen) : T \in ElemTypes}}

TagContents ==
    {Unit, Text("a"), Text("<b>&"), BogusOne, OptSome(Text("b")),
     Array(<<Text("a"), Text("b")>>), Tuple(<<Text("a"), BogusTwo>>),
     Tuple(<<Tag("th", Unit, <<>>), Text("a")>>),
     Tag("span", Text("b"), <<KV2>>),
     Ref(Tag("span", Text("b"), <<KV2>>)),
     with_attributes(Tag("span", Text("b"), <<>>), <<KV2>>)}

TagAttrs == {<<>>, <<KV1>>, <<KV1, KV1>>, <<KV1, KV2>>}

Tags == {Tag("div", c, a) : c \in TagContents, a \in TagAttrs}

\* tests::html_sample
html_sample ==
    Tag("div",
        Tuple(<<BogusOne, BogusOne, BogusTwo,
                Tag("table",
                    Tuple(<<Text("something"), Tag("th", Unit, <<>>),
                            Tag("tr", Unit, <<>>), Tag("tr", Unit, <<>>)>>),
                    <<>>)>>),
        << <<"attr", "value">> >>)

\* tests::counts_children
count_sample_1 == Tuple(<<BogusOne, Ref(BogusOne), Ref(BogusTwo)>>)
count_sample_2 == Tuple(<<BogusOne, Tuple(<<BogusOne>>), BogusOne>>)
count_sample_3 == Array(<<BogusOne, BogusOne, BogusOne>>)
count_sample_4 ==
    Tuple(<<BogusOne, BogusOne, Array(<<BogusOne, BogusOne, BogusOne>>),
            Array(<<BogusOne>>), Vec(<<Unit, Unit, Unit>>),
            Array(<<Ref(BogusTwo), Ref(BogusTwo), Ref(BogusTwo)>>)>>)

\* tests::html_either
html_either(include_rows) ==
    Tag("div",
        Tag("table",
            IF include_rows
            THEN Either(2, 1, Tuple(<<Tag("tr", Text("a"), <<>>),
                                      Tag("tr", Text("b"), <<>>)>>))
            ELSE Either(2, 2, Text("sumthin else")),
            <<>>),
        <<>>)

EitherMembers ==
    {Unit, Text("a"), Array(<<Text("a"), Text("b")>>),
     Tuple(<<Tag("tr", Text("a"), <<>>), Text("b")>>)}

EitherRoots ==
    UNION {{Either(n, v, c) : v \in 1 .. n, c \in EitherMembers} :
              n \in 1 .. MaxEither}

FoldNodes ==
    Tags \cup {Ref(t) : t \in Tags}
         \cup {with_attributes(t, a) : t \in Tags, a \in {<<>>, <<KV2>>}}
         \cup {html_either(TRUE), html_either(FALSE)}
         \cup {Text("a"), BogusOne, Ref(Text("a")), html_sample, div1, div2,
               Ref(Ref(html_sample)), with_attributes(Ref(html_sample), <<KV1>>)}

FoldRoots ==
    FoldNodes \cup TupleRoots \cup SeqRoots \cup EitherRoots
        \cup {Tuple(<<Either(2, 1, Text("a")), Either(2, 2, Text("b"))>>)}
        \cup {Unit, OptNone, OptSome(html_sample), OptSome(OptSome(Text("a")))}
        \cup {Tuple(<<t, Text("b")>>) : t \in Tags}
        \cup {count_sample_1, count_sample_2, count_sample_3, count_sample_4}

Processors == {"ChildCounter", "HtmlWriter"}

----------------------------------------------------------------------------
VARIABLES
    pc,          \* idle, fold, iter, done, panic
    entry,       \* the operation that was called
    root,        \* the value it was called on
    proc,        \* the processor of a fold
    stack,       \* the calls of a fold in progress, the innermost first
    ret,         \* the Result the innermost call was handed by its callee
    count,       \* the accumulator of ChildCounter
    sink,        \* the accumulator of HtmlWriter
    dispatched,  \* the nodes handed to the processor's function, in order
    firstErr,    \* the first error a processor's function returned
    result,      \* the Result of the fold
    query,       \* the index and the result of a get_attribute
    iter,        \* an AttributeIter
    yielded,     \* what its next() returned so far
    before       \* what the earlier iterator over the same node returned

vars ==
    <<pc, entry, root, proc, stack, ret, count, sink, dispatched, firstErr,
      result, query, iter, yielded, before>>

foldVars == <<proc, stack, ret, count, sink, dispatched, firstErr, result>>
attrVars == <<query, iter, yielded, before>>

NoQuery == [index |-> usize(0), res |-> None]
NoIter == [node |-> Unit, index |-> usize(0)]
EmptySink == [out |-> <<>>, attempts |-> 0, failedAt |-> 0]

Init ==
    /\ pc = "idle"
    /\ entry = "none"
    /\ root = Unit
    /\ proc = "none"
    /\ stack = <<>>
    /\ ret = Ok
    /\ count = usize(0)
    /\ sink = EmptySink
    /\ dispatched = <<>>
    /\ firstErr = Ok
    /\ result = None
    /\ query = NoQuery
    /\ iter = NoIter
    /\ yielded = <<>>
    /\ before = <<>>

----------------------------------------------------------------------------
(* Attribute lookup and iteration *)

\* node.get_attribute(index)
GetAttribute(n, i) ==
    /\ pc' = "done"
    /\ entry' = "get_attribute"
    /\ root' = n
    /\ query' = [index |-> i, res |-> get_attribute(n, i)]
    /\ UNCHANGED <<iter, yielded, before>>
    /\ UNCHANGED foldVars

NoneCount(s) == Cardinality({i \in 1 .. Len(s) : s[i] = None})

\* node.attributes(): a new iterator.  Called on a node that was iterated
\* before, the items of the earlier iterator are kept in `before`.
Attributes(n) ==
    /\ pc' = "iter"
    /\ entry' = "attributes"
    /\ root' = n
    /\ iter' = attributes(n)
    /\ before' = yielded
    /\ yielded' = <<>>
    /\ UNCHANGED query
    /\ UNCHANGED foldVars

\* a second call of attributes() on the node that was iterated
AttributesAgain ==
    /\ pc = "iter"
    /\ before = <<>>
    /\ yielded # <<>>
    /\ Attributes(root)

\* iter.next().  The caller stops at the latest one call after the first None.
IterNext ==
    /\ pc = "iter"
    /\ NoneCount(yielded) < 2
    /\ \E r \in AttributeIter_next(iter) :
           IF r.res = Panic
           THEN pc' = "panic" /\ UNCHANGED <<iter, yielded>>
           ELSE pc' = pc /\ iter' = r.it /\ yielded' = Append(yielded, r.res)
    /\ UNCHANGED <<entry, root, query, before>>
    /\ UNCHANGED foldVars

----------------------------------------------------------------------------
(* Folds *)

Frame(op) == [op |-> op]
CallProcessAll(c) == [op |-> "process_all", c |-> c]
CallProcessChildren(n) == [op |-> "process_children", node |-> n]

\* a bug: the members of a tuple are folded without `?`
OnError_tuple_unchecked(frame) ==
    IF frame.op = "tuple" THEN "continue" ELSE "return"

\* a bug: the Result of a write! is dropped
OnError_write_unchecked(frame) ==
    IF frame.op = "add_node" THEN "continue" ELSE "return"

\* what a call does with an Err of its callee: every call of the crate is
\* followed by `?` or is the function's last expression
OnError(frame) == "return"

\* a bug: the overlay forwards to the wrapped node
WithAttributes_process_children_forward(node) ==
    <<CallProcessChildren(node.node)>>

\* impl DOMNode for WithAttributes: process_children.  The calls it makes.
WithAttributes_process_children(node) == <<>>

\* the function P::get_processor::<T>() returns, as a call on `node`
get_processor(p, node) ==
    IF p = "ChildCounter"
    THEN [op |-> "incr", node |-> node]
    ELSE [op |-> "add_node", node |-> node, at |-> "match", name |-> "",
          it |-> NoIter]

\* a bug: a node is folded together with its children
DOMNode_process_all_descend(p, node) ==
    <<get_processor(p, node), CallProcessChildren(node)>>

\* impl DOMNodes for T: DOMNode: process_all.  The calls it makes.
DOMNode_process_all(p, node) == <<get_processor(p, node)>>

InFold == pc = "fold" /\ stack # <<>> /\ ret = Ok
Top == stack[1]
Rest == Tail(stack)
Depth == Cardinality({i \in 1 .. Len(stack) : stack[i].op = "add_node"})

StartFold(frame, e, c, p) ==
    /\ pc' = "fold"
    /\ entry' = e
    /\ root' = c
    /\ proc' = p
    /\ stack' = <<frame>>
    /\ UNCHANGED <<ret, count, sink, dispatched, firstErr, result>>
    /\ UNCHANGED attrVars

\* c.process_all::<P>(&mut acc), on a new accumulator
StartProcessAll(c, p) == StartFold(CallProcessAll(c), "process_all", c, p)

\* n.process_children::<P>(&mut acc), on a new accumulator
StartProcessChildren(n, p) ==
    StartFold(CallProcessChildren(n), "process_children", n, p)

Goto(newStack) ==
    /\ stack' = newStack
    /\ UNCHANGED <<pc, entry, root, proc, ret, count, sink, dispatched,
                   firstErr, result>>
    /\ UNCHANGED attrVars

\* impl DOMNodes for (): process_all
ProcessAllUnit ==
    /\ InFold /\ Top.op = "process_all" /\ Top.c.kind = "Unit"
    /\ Goto(Rest)

\* impl DOMNodes for T: DOMNode: process_all
ProcessAllNode ==
    /\ InFold /\ Top.op = "process_all" /\ IsNode(Top.c)
    /\ stack' = DOMNode_process_all(proc, Top.c) \o Rest
    /\ dispatched' = Append(dispatched, [node |-> Top.c, depth |-> Depth])
    /\ UNCHANGED <<pc, entry, root, proc, ret, count, sink, firstErr, result>>
    /\ UNCHANGED attrVars

\* impl DOMNodes for Option<T>: process_all
ProcessAllOption ==
    /\ InFold /\ Top.op = "process_all" /\ Top.c.kind = "Option"
    /\ IF Top.c.inner = None
       THEN Goto(Rest)
       ELSE Goto(<<CallProcessAll(Top.c.inner.val)>> \o Rest)

\* either_impls: impl DOMNodes for Either1 .. Either8: process_all.  Every arm
\* of the match is value.process_all::<P>(acc)?, and Ok(()) follows.
ProcessAllEither ==
    /\ InFold /\ Top.op = "process_all" /\ Top.c.kind = "Either"
    /\ Goto(<<CallProcessAll(Top.c.inner), Frame("try")>> \o Rest)

\* impl DOMNodes for [T], Vec<T> and [T; N]: process_all, entering the loop
ProcessAllSeq ==
    /\ InFold /\ Top.op = "process_all" /\ Top.c.kind \in SeqKinds
    /\ Goto(<<[op |-> "for", elems |-> Top.c.elems, i |-> 1]>> \o Rest)

\* one turn of `for x in self { x.process_all::<P>(acc)?; }`, or Ok(())
ForNext ==
    /\ InFold /\ Top.op = "for"
    /\ IF Top.i <= Len(Top.elems)
       THEN Goto(<<CallProcessAll(Top.elems[Top.i]), [Top EXCEPT !.i = @ + 1]>>
                     \o Rest)
       ELSE Goto(Rest)

\* the generated impl DOMNodes for a tuple: process_all, entering the body
ProcessAllTuple ==
    /\ InFold /\ Top.op = "process_all" /\ Top.c.kind = "Tuple"
    /\ Goto(<<[op |-> "tuple", elems |-> Top.c.elems,
               order |-> tuple_order(Len(Top.c.elems)), i |-> 1]>> \o Rest)

\* one statement `&self.$idx.process_all::<P>(acc)?;` of the body, or Ok(())
TupleNext ==
    /\ InFold /\ Top.op = "tuple"
    /\ IF Top.i <= Len(Top.order)
       THEN Goto(<<CallProcessAll(Top.elems[Top.order[Top.i] + 1]),
                   [Top EXCEPT !.i = @ + 1]>> \o Rest)
       ELSE Goto(Rest)

\* tests::ChildCounter: incr
Incr ==
    /\ InFold /\ Top.op = "incr"
    /\ \E o \in (IF usize_add(count, usize(1)) # None
                 THEN {usize_add(count, usize(1))} ELSE OverflowOutcomes) :
          IF o = Panic
          THEN pc' = "panic" /\ UNCHANGED <<count, stack>>
          ELSE pc' = pc /\ count' = o.val /\ stack' = Rest
    /\ UNCHANGED <<entry, root, proc, ret, sink, dispatched, firstErr, result>>
    /\ UNCHANGED attrVars

\* write!(w, ...): the sink takes the pieces and answers Ok, or takes fewer
\* and answers with an error of its own
Write(pieces, frame) ==
    /\ \E k \in 0 .. Len(pieces) :
          /\ sink' = [out |-> sink.out \o SubSeq(pieces, 1, k),
                      attempts |-> sink.attempts + 1,
                      failedAt |-> IF k < Len(pieces) /\ sink.failedAt = 0
                                   THEN sink.attempts + 1 ELSE sink.failedAt]
          /\ ret' = IF k = Len(pieces) THEN Ok ELSE Err(sink.attempts + 1)
    /\ stack' = <<frame>> \o Rest
    /\ UNCHANGED <<pc, entry, root, proc, count, dispatched, firstErr, result>>
    /\ UNCHANGED attrVars

\* HtmlWriter: add_node, `match node.value()`
AddNodeMatch ==
    /\ InFold /\ Top.op = "add_node" /\ Top.at = "match"
    /\ LET v == value(Top.node)
       IN  IF v.tag = "Element"
           THEN Goto(<<[Top EXCEPT !.at = "open", !.name = v.name]>> \o Rest)
           ELSE Goto(<<[Top EXCEPT !.at = "text", !.name = v.text]>> \o Rest)

\* add_node: write!(w, "{}", text)?
AddNodeText ==
    /\ InFold /\ Top.op = "add_node" /\ Top.at = "text"
    /\ Write(fmt_text(Top.name), [Top EXCEPT !.at = "end"])

\* add_node: write!(w, "<{}", tagname)?, then node.attributes()
AddNodeOpen ==
    /\ InFold /\ Top.op = "add_node" /\ Top.at = "open"
    /\ Write(fmt_open(Top.name),
             [Top EXCEPT !.at = "attrs", !.it = attributes(Top.node)])

\* add_node: one turn of `for attr in node.attributes()`
AddNodeAttr ==
    /\ InFold /\ Top.op = "add_node" /\ Top.at = "attrs"
    /\ \E r \in AttributeIter_next(Top.it) :
           CASE r.res = Panic ->
                  /\ pc' = "panic"
                  /\ UNCHANGED <<entry, root>>
                  /\ UNCHANGED foldVars
                  /\ UNCHANGED attrVars
             [] r.res = None -> Goto(<<[Top EXCEPT !.at = "gt"]>> \o Rest)
             [] OTHER -> Write(fmt_attr(r.res.val), [Top EXCEPT !.it = r.it])

\* add_node: write!(w, ">")?
AddNodeGt ==
    /\ InFold /\ Top.op = "add_node" /\ Top.at = "gt"
    /\ Write(fmt_gt, [Top EXCEPT !.at = "children"])

\* add_node: node.process_children::<HtmlWriter<W>>(w)?
AddNodeChildren ==
    /\ InFold /\ Top.op = "add_node" /\ Top.at = "children"
    /\ Goto(<<CallProcessChildren(Top.node), [Top EXCEPT !.at = "close"]>>
                \o Rest)

\* add_node: write!(w, "</{}>", tagname)?
AddNodeClose ==
    /\ InFold /\ Top.op = "add_node" /\ Top.at = "close"
    /\ Write(fmt_close(Top.name), [Top EXCEPT !.at = "end"])

\* add_node: Ok(())
AddNodeEnd ==
    /\ InFold /\ Top.op = "add_node" /\ Top.at = "end"
    /\ Goto(Rest)

\* impl DOMNode for Tag: process_children
ProcessChildrenTag ==
    /\ InFold /\ Top.op = "process_children" /\ Top.node.kind = "Tag"
    /\ Goto(<<CallProcessAll(Top.node.contents), Frame("try")>> \o Rest)

\* impl DOMNode for &T: process_children
ProcessChildrenRef ==
    /\ InFold /\ Top.op = "process_children" /\ Top.node.kind = "Ref"
    /\ Goto(<<CallProcessChildren(Top.node.node), Frame("try")>> \o Rest)

\* impl DOMNode for WithAttributes: process_children
ProcessChildrenOverlay ==
    /\ InFold /\ Top.op = "process_children"
    /\ Top.node.kind = "WithAttributes"
    /\ Goto(WithAttributes_process_children(Top.node) \o Rest)

\* impl DOMNode for &'static str, String and the tests' nodes:
\* process_children
ProcessChildrenLeaf ==
    /\ InFold /\ Top.op = "process_children"
    /\ Top.node.kind \in {"Text", "Bogus"}
    /\ Goto(Rest)

\* the `Ok(())` after a `?` that passed, in the process_children of Tag and &T
\* and in the process_all of the Either enums
TryOk ==
    /\ InFold /\ Top.op = "try"
    /\ Goto(Rest)

\* an Err reaches the innermost call, which returns it to its caller
Propagate ==
    /\ pc = "fold" /\ stack # <<>> /\ ret # Ok
    /\ IF OnError(Top) = "return"
       THEN /\ stack' = Rest
            /\ firstErr' = IF Top.op \in {"add_node", "incr"} /\ firstErr = Ok
                           THEN ret ELSE firstErr
            /\ ret' = ret
       ELSE /\ ret' = Ok
            /\ UNCHANGED <<stack, firstErr>>
    /\ UNCHANGED <<pc, entry, root, proc, count, sink, dispatched, result>>
    /\ UNCHANGED attrVars

\* the outermost call returns
Finish ==
    /\ pc = "fold" /\ stack = <<>>
    /\ pc' = "done"
    /\ result' = ret
    /\ UNCHANGED <<entry, root, proc, stack, ret, count, sink, dispatched,
                   firstErr>>
    /\ UNCHANGED attrVars

----------------------------------------------------------------------------
Next ==
    \/ pc = "idle" /\ \E n \in AttrNodes, i \in Indices : GetAttribute(n, i)
    \/ pc = "idle" /\ \E n \in AttrNodes : Attributes(n)
    \/ AttributesAgain
    \/ IterNext
    \/ pc = "idle" /\ \E c \in FoldRoots, p \in Processors : StartProcessAll(c, p)
    \/ pc = "idle" /\ \E n \in FoldNodes, p \in Processors : StartProcessChildren(n, p)
    \/ ProcessAllUnit
    \/ ProcessAllNode
    \/ ProcessAllOption
    \/ ProcessAllEither
    \/ ProcessAllSeq
    \/ ForNext
    \/ ProcessAllTuple
    \/ TupleNext
    \/ Incr
    \/ AddNodeMatch
    \/ AddNodeText
    \/ AddNodeOpen
    \/ AddNodeAttr
    \/ AddNodeGt
    \/ AddNodeChildren
    \/ AddNodeClose
    \/ AddNodeEnd
    \/ ProcessChildrenTag
    \/ ProcessChildrenRef
    \/ ProcessChildrenOverlay
    \/ ProcessChildrenLeaf
    \/ TryOk
    \/ Propagate
    \/ Finish

Spec == Init /\ [][Next]_vars

----------------------------------------------------------------------------
(* What the claims are stated with.  None of these definitions reads the   *)
(* operators that model the code, except where a claim is about them.      *)

IsPrefix(s, t) == Len(s) <= Len(t) /\ SubSeq(t, 1, Len(s)) = s

\* the attribute list of a node by its structure: an overlay's own list in
\* front of the wrapped node's, a Tag's list, and no attributes for a node
\* that keeps the trait's default get_attribute
RECURSIVE Concat(_)
Concat(n) ==
    CASE n.kind = "WithAttributes" -> n.attributes \o Concat(n.node)
      [] n.kind = "Tag" -> n.attributes
      [] OTHER -> <<>>

\* the item of a list at a usize (from 0), as an Option
At(list, i) ==
    IF \E k \in 1 .. Len(list) : i = usize(k - 1)
    THEN Some(list[(CHOOSE k \in 1 .. Len(list) : i = usize(k - 1))])
    ELSE None

\* the attributes a node answers for at the indices 0, 1, ... before its
\* first None
RECURSIVE AddressedFrom(_, _)
AddressedFrom(n, i) ==
    IF get_attribute(n, usize(i)).tag # "Some" THEN <<>>
    ELSE <<get_attribute(n, usize(i)).val>> \o AddressedFrom(n, i + 1)
Addressed(n) == AddressedFrom(n, 0)

\* the node members of a collection, flattened, in declaration order
RECURSIVE Flatten(_)
RECURSIVE FlattenFrom(_, _)
Flatten(c) ==
    CASE IsNode(c) -> <<c>>
      [] c.kind = "Unit" -> <<>>
      [] c.kind = "Option" -> IF c.inner = None THEN <<>> ELSE Flatten(c.inner.val)
      [] c.kind = "Either" -> Flatten(c.inner)
      [] OTHER -> FlattenFrom(c.elems, 1)
FlattenFrom(es, i) ==
    IF i > Len(es) THEN <<>> ELSE Flatten(es[i]) \o FlattenFrom(es, i + 1)

\* the number of node members of a collection
RECURSIVE Members(_)
RECURSIVE MembersFrom(_, _)
Members(c) ==
    CASE IsNode(c) -> 1
      [] c.kind = "Unit" -> 0
      [] c.kind = "Option" -> IF c.inner = None THEN 0 ELSE Members(c.inner.val)
      [] c.kind = "Either" -> Members(c.inner)
      [] OTHER -> MembersFrom(c.elems, 1)
MembersFrom(es, i) ==
    IF i > Len(es) THEN 0 ELSE Members(es[i]) + MembersFrom(es, i + 1)

\* a tree of tags, text nodes, the tests' elements and collections
RECURSIVE Plain(_)
Plain(c) ==
    CASE c.kind \in {"Text", "Bogus", "Unit"} -> TRUE
      [] c.kind = "Tag" -> Plain(c.contents)
      [] c.kind = "Option" -> c.inner = None \/ Plain(c.inner.val)
      [] c.kind = "Either" -> Plain(c.inner)
      [] c.kind \in SeqKinds \cup {"Tuple"} ->
             \A i \in 1 .. Len(c.elems) : Plain(c.elems[i])
      [] OTHER -> FALSE

\* the markup of a plain tree
RECURSIVE Markup(_)
RECURSIVE MarkupFrom(_, _)
RECURSIVE MarkupAttrs(_, _)
Markup(c) ==
    CASE c.kind = "Text" -> <<c.text>>
      [] c.kind = "Bogus" -> <<"<", c.tag, ">", "</", c.tag, ">">>
      [] c.kind = "Tag" ->
             <<"<", c.tagname>> \o MarkupAttrs(c.attributes, 1) \o <<">">>
                 \o Markup(c.contents) \o <<"</", c.tagname, ">">>
      [] c.kind = "Unit" -> <<>>
      [] c.kind = "Option" -> IF c.inner = None THEN <<>> ELSE Markup(c.inner.val)
      [] c.kind = "Either" -> Markup(c.inner)
      [] OTHER -> MarkupFrom(c.elems, 1)
MarkupFrom(es, i) ==
    IF i > Len(es) THEN <<>> ELSE Markup(es[i]) \o MarkupFrom(es, i + 1)
MarkupAttrs(as, i) ==
    IF i > Len(as) THEN <<>>
    ELSE <<" ", as[i][1], "=\"", as[i][2], "\"">> \o MarkupAttrs(as, i + 1)

\* the markup tests::builds_string expects, in the pieces of the writer
SampleMarkup ==
    <<"<", "div", " ", "attr", "=\"", "value", "\"", ">",
      "<", "bogus_tag_one", ">", "</", "bogus_tag_one", ">",
      "<", "bogus_tag_one", ">", "</", "bogus_tag_one", ">",
      "<", "bogus_tag_two", ">", "</", "bogus_tag_two", ">",
      "<", "table", ">", "something",
      "<", "th", ">", "</", "th", ">",
      "<", "tr", ">", "</", "tr", ">",
      "<", "tr", ">", "</", "tr", ">",
      "</", "table", ">", "</", "div", ">">>

\* the markup tests::builds_either_string expects, in the pieces of the
\* writer; the test compares after removing the white space
EitherMarkup(include_rows) ==
    <<"<", "div", ">", "<", "table", ">">>
    \o (IF include_rows
        THEN <<"<", "tr", ">", "a", "</", "tr", ">",
               "<", "tr", ">", "b", "</", "tr", ">">>
        ELSE <<"sumthin else">>)
    \o <<"</", "table", ">", "</", "div", ">">>

\* the nodes handed to the processor by the collections themselves, not by
\* a processor's function that recursed
TopLevelDispatched ==
    LET top == SelectSeq(dispatched, LAMBDA d : d.depth = 0)
    IN  [i \in 1 .. Len(top) |-> top[i].node]

Queried == pc = "done" /\ entry = "get_attribute"
Folded == pc = "done" /\ entry \in {"process_all", "process_children"}

----------------------------------------------------------------------------
(* The claims *)

\* C1: get_attribute(i) of an overlay is own[i] for i < len(own) and the
\* wrapped node's get_attribute(i - len(own)) otherwise, so the overlay
\* answers for own ++ (the wrapped node's attributes), duplicates kept,
\* the outermost overlay's attributes first when overlays are nested.
C1_OverlayConcatenation ==
    Queried /\ root.kind = "WithAttributes" =>
        LET own == root.attributes
            i == query.index
            len == usize(Len(own))
        IN  /\ usize_lt(i, len) => query.res = Some(own[nat(i) + 1])
            /\ ~usize_lt(i, len) =>
                  query.res = get_attribute(root.node, usize_sub(i, len).val)
            /\ query.res = At(own \o Addressed(root.node), i)
            /\ query.res = At(Concat(root), i)

\* an overlay around an overlay is asked past its own attributes and answers
\* with an attribute of a wrapped node whose key-value it holds itself too
C1_Witness ==
    /\ Queried
    /\ root.kind = "WithAttributes" /\ root.node.kind = "WithAttributes"
    /\ root.attributes # <<>> /\ root.node.attributes # <<>>
    /\ ~usize_lt(query.index,
                 usize(Len(root.attributes) + Len(root.node.attributes)))
    /\ query.res = Some(root.attributes[1])

\* C2: monotonic exhaustion: when get_attribute(i) of a node is None, so is
\* get_attribute(j) for every j >= i.
C2_MonotonicExhaustion ==
    Queried /\ query.res = None =>
        \A j \in Indices :
            ~usize_lt(j, query.index) => get_attribute(root, j) = None

\* the first None of a nested overlay that has attributes on every level
C2_Witness ==
    /\ Queried /\ query.res = None
    /\ root.kind = "WithAttributes" /\ root.node.kind = "WithAttributes"
    /\ root.node.node.kind = "Tag"
    /\ root.attributes # <<>> /\ root.node.attributes # <<>>
    /\ root.node.node.attributes # <<>>
    /\ query.index = usize(Len(Concat(root)))

\* C3: fail-fast folding: once a processor's function has returned an error,
\* no further node is dispatched, and the fold returns that first error.
C3_FailFast ==
    [][/\ firstErr # Ok => dispatched' = dispatched
       /\ pc' = "done" /\ firstErr' # Ok => result' = firstErr']_vars

\* a fold of a tuple in a Tag's children has ended with the error of a member
\* that was not the last one
C3_Witness ==
    /\ Folded /\ firstErr # Ok /\ result = firstErr
    /\ root.kind = "Tag" /\ root.contents.kind = "Tuple"
    /\ Len(dispatched) = 2
    /\ Len(dispatched) < 1 + Members(root.contents)

\* C4: process_all dispatches the members of a collection in declaration
\* order, depth-first: sequences from element 0 on, tuples of every
\* generated arity at the positions 0, 1, ..., N-1.
C4_DeclarationOrder ==
    entry = "process_all" =>
        /\ IsPrefix(TopLevelDispatched, Flatten(root))
        /\ pc = "done" /\ result = Ok => TopLevelDispatched = Flatten(root)

\* a tuple of the largest arity with a nested sequence among its members has
\* been folded to the end
C4_Witness ==
    /\ Folded /\ entry = "process_all" /\ result = Ok
    /\ root.kind = "Tuple" /\ Len(root.elems) = MaxTupleArity
    /\ \E i \in 1 .. Len(root.elems) : root.elems[i].kind = "Array"
    /\ Len(TopLevelDispatched) = MaxTupleArity + 1

\* C5: a fold calls the processor's function once per node member of the
\* flattened collection and never for a node's children by itself; the
\* process_children of a Tag calls it once per member of the flattened
\* children.  ChildCounter counts 9 for the sample of the tests, 1 for an
\* element with 4 children and 4 for the children of that element.
C5_OncePerMember ==
    Folded /\ proc = "ChildCounter" =>
        /\ result = Ok
        /\ count = usize(Len(dispatched))
        /\ entry = "process_all" => count = usize(Members(root))
        /\ entry = "process_children" /\ root.kind = "Tag" =>
               count = usize(Members(root.contents))
        /\ entry = "process_all" /\ root = count_sample_4 => count = usize(9)
        /\ entry = "process_all" /\ root = html_sample => count = usize(1)
        /\ entry = "process_children" /\ root = html_sample =>
               count = usize(4)

\* the children of the element with 4 children have been counted
C5_Witness ==
    /\ Folded /\ proc = "ChildCounter" /\ entry = "process_children"
    /\ root = html_sample /\ count = usize(4)

\* C6: on a sink that never fails the HTML writer writes, for an element,
\* `<tag`, ` key="value"` per attribute in index order, `>`, the children in
\* order and `</tag>`, and for a text node its payload as it is.
C6_Markup ==
    Folded /\ proc = "HtmlWriter" /\ entry = "process_all"
           /\ sink.failedAt = 0 /\ Plain(root) =>
        /\ result = Ok
        /\ sink.out = Markup(root)
        /\ root = html_sample => sink.out = SampleMarkup
        /\ \A b \in BOOLEAN :
              root = html_either(b) => sink.out = EitherMarkup(b)

\* the sample of the tests has been written
C6_Witness ==
    /\ Folded /\ proc = "HtmlWriter" /\ entry = "process_all"
    /\ root = html_sample /\ sink.failedAt = 0 /\ sink.out = SampleMarkup

\* C7: after the first failed write the HTML writer attempts no further
\* write, and the fold returns the error of that write.
C7_WriteFailureAborts ==
    [][/\ sink.failedAt # 0 => sink' = sink
       /\ pc' = "done" /\ sink'.failedAt # 0 =>
              result' = Err(sink'.failedAt)]_vars

\* the write of an attribute of the sample failed after the opening tag was
\* written, and the fold has returned
C7_Witness ==
    /\ Folded /\ root = html_sample /\ entry = "process_all"
    /\ sink.failedAt = 2 /\ sink.attempts = 2
    /\ sink.out = <<"<", "div", " ", "attr">>
    /\ result = Err(2)

\* C8: process_children of an overlay returns Ok, dispatches no node and
\* leaves the accumulator as it was, whatever children the wrapped node has.
C8_OverlayDropsChildren ==
    entry = "process_children" /\ root.kind = "WithAttributes" =>
        /\ dispatched = <<>>
        /\ count = usize(0)
        /\ sink = EmptySink
        /\ pc = "done" => result = Ok

\* the process_children of an overlay around a Tag with two children has
\* returned
C8_Witness ==
    /\ Folded /\ entry = "process_children" /\ result = Ok
    /\ root.kind = "WithAttributes" /\ root.node.kind = "Tag"
    /\ Members(root.node.contents) = 2

\* C9: get_attribute never fails: at every index, the largest of usize
\* included, it returns an attribute or None, the overlay's subtraction never
\* underflows.
C9_NeverFails ==
    /\ pc # "panic"
    /\ Queried => query.res.tag \in {"Some", "None"}

\* an overlay around an overlay is asked for one of its own attributes, where
\* index - len(own) would underflow
C9_Witness ==
    /\ Queried
    /\ root.kind = "WithAttributes" /\ root.node.kind = "WithAttributes"
    /\ Len(root.attributes) = 2
    /\ query.index = usize(1)
    /\ query.res = Some(root.attributes[2])

\* C10: attributes() starts at index 0 on every call; the results of next()
\* are get_attribute(0), get_attribute(1), ...: the node's k attributes in
\* index order, then None; a second call yields the same again.
C10_AttributeIter ==
    pc = "iter" =>
        /\ iter.node = root
        /\ iter.index = usize(Len(yielded))
        /\ \A i \in 1 .. Len(yielded) :
              /\ yielded[i] = get_attribute(root, usize(i - 1))
              /\ yielded[i] = At(Concat(root), usize(i - 1))
              /\ i <= Len(before) => yielded[i] = before[i]

\* the second iterator over a node with three attributes has returned them
\* and a None, as the first did
C10_Witness ==
    /\ pc = "iter"
    /\ Len(Concat(root)) = 3
    /\ Len(yielded) = 4 /\ yielded[4] = None /\ yielded[3] # None
    /\ before = yielded

\* the nodes the process_children of a node hands to the processor when the
\* node is folded as itself, not through a reference
RECURSIVE ChildrenOf(_)
ChildrenOf(n) ==
    CASE n.kind = "Tag" -> Flatten(n.contents)
      [] n.kind = "Ref" -> ChildrenOf(n.node)
      [] OTHER -> <<>>

\* C11: a reference &T behaves as the node T: its value, the children its
\* process_children dispatches and its get_attribute(i) at every i are those
\* of T, so the HTML writer writes for &T what it writes for T.
C11_ReferenceTransparent ==
    root.kind = "Ref" =>
        /\ value(root) = value(root.node)
        /\ Queried => query.res = get_attribute(root.node, query.index)
        /\ Folded /\ entry = "process_children" /\ result = Ok =>
               TopLevelDispatched = ChildrenOf(root.node)
        /\ Folded /\ entry = "process_all" /\ proc = "HtmlWriter"
                  /\ sink.failedAt = 0 /\ Plain(root.node) =>
               sink.out = Markup(root.node)

====
